---- MODULE Spec2Model ----
(***************************************************************************)
(* Model of public_server: the environment configuration loader            *)
(* (utils/env.py, class Env) and the error-response normalizer (main.py,   *)
(* response_for_error and the exception handlers).                         *)
(*                                                                         *)
(* Text is a sequence of one-character strings, so that prefix tests,      *)
(* slicing, case folding and parsing are computed character by character.  *)
(* A Python value is a record [t, c, i, f, s]: t the type tag, c the class *)
(* name of an enum member or of a raised exception, i an integer payload   *)
(* (for a float the decimal mantissa), f the number of fraction digits of  *)
(* a float, s a text payload.                                              *)
(***************************************************************************)
EXTENDS Integers, Sequences, FiniteSets, TLC

VARIABLES environ, settings, last, prev

vars == <<environ, settings, last, prev>>

----------------------------------------------------------------------------
(* Bounds of the model *)

MaxEnv == 2

----------------------------------------------------------------------------
(* Python values *)

IntV(n) == [t |-> "int", c |-> "", i |-> n, f |-> 0, s |-> <<>>]

RECURSIVE FloatNorm(_, _)
FloatNorm(m, fd) ==
  IF fd > 0 /\ m % 10 = 0 THEN FloatNorm(m \div 10, fd - 1)
  ELSE [t |-> "float", c |-> "", i |-> m, f |-> fd, s |-> <<>>]

FloatV(m, fd) == FloatNorm(m, fd)

StrV(txt) == [t |-> "str", c |-> "", i |-> 0, f |-> 0, s |-> txt]

BoolV(b) == [t |-> "bool", c |-> "", i |-> IF b THEN 1 ELSE 0, f |-> 0, s |-> <<>>]

NoneV == [t |-> "NoneType", c |-> "", i |-> 0, f |-> 0, s |-> <<>>]

EnumV(cls, v) == [t |-> "enum", c |-> cls, i |-> v.i, f |-> 0, s |-> v.s]

Raise(cls) == [t |-> "raise", c |-> cls, i |-> 0, f |-> 0, s |-> <<>>]

IsRaise(v) == v.t = "raise"

isinstance_str(v) == v.t = "str"

----------------------------------------------------------------------------
(* Text helpers: str.startswith, slicing, the in operator, str.replace,    *)
(* str.lower                                                               *)

startswith(txt, p) ==
  /\ Len(txt) >= Len(p)
  /\ SubSeq(txt, 1, Len(p)) = p

SliceFrom(txt, n) == IF n >= Len(txt) THEN <<>> ELSE SubSeq(txt, n + 1, Len(txt))

contains(sub, txt) ==
  \E k \in 0..(Len(txt) - Len(sub)) : SubSeq(txt, k + 1, k + Len(sub)) = sub

RECURSIVE replace(_, _, _)
replace(txt, old, new) ==
  IF txt = <<>> THEN <<>>
  ELSE IF Head(txt) = old THEN new \o replace(Tail(txt), old, new)
  ELSE <<Head(txt)>> \o replace(Tail(txt), old, new)

UpperLetters == <<"T", "R", "U", "E", "Y", "S", "F", "A", "L", "N", "O", "B", "C", "X">>

LowerLetters == <<"t", "r", "u", "e", "y", "s", "f", "a", "l", "n", "o", "b", "c", "x">>

lower_char(ch) ==
  IF \E k \in 1..Len(UpperLetters) : UpperLetters[k] = ch
  THEN LowerLetters[CHOOSE k \in 1..Len(UpperLetters) : UpperLetters[k] = ch]
  ELSE ch

lower(txt) == [k \in 1..Len(txt) |-> lower_char(txt[k])]

----------------------------------------------------------------------------
(* Number syntax shared by the parsers *)

Digits == <<"0", "1", "2", "3", "4", "5", "6", "7", "8", "9">>

IsDigit(ch) == \E k \in 1..10 : Digits[k] = ch

DigitVal(ch) == (CHOOSE k \in 1..10 : Digits[k] = ch) - 1

AllDigits(txt) == txt # <<>> /\ \A k \in 1..Len(txt) : IsDigit(txt[k])

RECURSIVE DecVal(_)
DecVal(txt) ==
  IF txt = <<>> THEN 0
  ELSE DecVal(SubSeq(txt, 1, Len(txt) - 1)) * 10 + DigitVal(txt[Len(txt)])

HasSign(txt) == txt # <<>> /\ Head(txt) \in {"+", "-"}

Unsigned(txt) == IF HasSign(txt) THEN Tail(txt) ELSE txt

SignOf(txt) == IF txt # <<>> /\ Head(txt) = "-" THEN -1 ELSE 1

DotAt(txt) == CHOOSE k \in 1..Len(txt) : txt[k] = "."

HasOneDot(txt) == Cardinality({k \in 1..Len(txt) : txt[k] = "."}) = 1

IntPart(txt) == SubSeq(txt, 1, DotAt(txt) - 1)

FracPart(txt) == SubSeq(txt, DotAt(txt) + 1, Len(txt))

----------------------------------------------------------------------------
(* The type parsers, on text without whitespace, underscores, exponents,   *)
(* escapes or brackets (the alphabet of RawTexts below)                    *)

\* int(v): an optional sign and decimal digits, else ValueError
int_(txt) ==
  IF AllDigits(Unsigned(txt))
  THEN IntV(SignOf(txt) * DecVal(Unsigned(txt)))
  ELSE Raise("ValueError")

IsFloatBody(u) ==
  \/ AllDigits(u)
  \/ /\ HasOneDot(u)
     /\ Len(u) > 1
     /\ \A k \in 1..Len(u) : k # DotAt(u) => IsDigit(u[k])

FloatOfBody(sign, u) ==
  IF AllDigits(u) THEN FloatV(sign * DecVal(u), 0)
  ELSE FloatV(sign * DecVal(IntPart(u) \o FracPart(u)), Len(FracPart(u)))

\* float(v): an optional sign, digits and at most one decimal point
float_(txt) ==
  IF IsFloatBody(Unsigned(txt))
  THEN FloatOfBody(SignOf(txt), Unsigned(txt))
  ELSE Raise("ValueError")

IsJsonInt(u) == AllDigits(u) /\ (Len(u) = 1 \/ Head(u) # "0")

IsJsonNumber(u) ==
  \/ IsJsonInt(u)
  \/ /\ HasOneDot(u)
     /\ IsJsonInt(IntPart(u))
     /\ AllDigits(FracPart(u))

IsQuoted(txt, q) ==
  /\ Len(txt) >= 2
  /\ txt[1] = q
  /\ txt[Len(txt)] = q
  /\ \A k \in 2..(Len(txt) - 1) : txt[k] # q

Unquote(txt) == SubSeq(txt, 2, Len(txt) - 1)

QUOTE == "\""

APOS == "'"

\* json.loads(value): null, true, false, a double-quoted string or a number
json_loads(txt) ==
  IF txt = <<"n", "u", "l", "l">> THEN NoneV
  ELSE IF txt = <<"t", "r", "u", "e">> THEN BoolV(TRUE)
  ELSE IF txt = <<"f", "a", "l", "s", "e">> THEN BoolV(FALSE)
  ELSE IF IsQuoted(txt, QUOTE) THEN StrV(Unquote(txt))
  ELSE IF txt # <<>> /\ Head(txt) # "+" /\ IsJsonNumber(Unsigned(txt))
  THEN IF AllDigits(Unsigned(txt))
       THEN IntV(SignOf(txt) * DecVal(Unsigned(txt)))
       ELSE FloatOfBody(SignOf(txt), Unsigned(txt))
  ELSE Raise("JSONDecodeError")

IsPyInt(u) == AllDigits(u) /\ (Head(u) # "0" \/ \A k \in 1..Len(u) : u[k] = "0")

IsLetter(ch) ==
  \E k \in 1..Len(UpperLetters) : UpperLetters[k] = ch \/ LowerLetters[k] = ch

\* ast.literal_eval(value): None, True, False, a quoted string or a signed number
literal_eval(txt) ==
  IF txt = <<"N", "o", "n", "e">> THEN NoneV
  ELSE IF txt = <<"T", "r", "u", "e">> THEN BoolV(TRUE)
  ELSE IF txt = <<"F", "a", "l", "s", "e">> THEN BoolV(FALSE)
  ELSE IF IsQuoted(txt, QUOTE) \/ IsQuoted(txt, APOS) THEN StrV(Unquote(txt))
  ELSE IF IsPyInt(Unsigned(txt)) THEN IntV(SignOf(txt) * DecVal(Unsigned(txt)))
  ELSE IF ~AllDigits(Unsigned(txt)) /\ IsFloatBody(Unsigned(txt))
  THEN FloatOfBody(SignOf(txt), Unsigned(txt))
  ELSE IF Unsigned(txt) # <<>> /\ \A k \in 1..Len(Unsigned(txt)) : IsLetter(Unsigned(txt)[k])
  THEN Raise("ValueError")
  ELSE Raise("SyntaxError")

----------------------------------------------------------------------------
(* The process environment: a sequence of [name, value] entries with       *)
(* distinct names, in the order os.environ iterates them                   *)

IsSet(name) == \E k \in 1..Len(environ) : environ[k].name = name

RawOf(name) == environ[CHOOSE k \in 1..Len(environ) : environ[k].name = name].value

\* os.getenv(name, None)
os_getenv(name) == IF IsSet(name) THEN StrV(RawOf(name)) ELSE NoneV

RECURSIVE IntText(_)
IntText(n) ==
  IF n < 0 THEN <<"-">> \o IntText(-n)
  ELSE IF n < 10 THEN <<Digits[n + 1]>>
  ELSE IntText(n \div 10) \o <<Digits[(n % 10) + 1]>>

\* str(x)
str(v) ==
  CASE v.t = "str" -> v.s
    [] v.t = "int" -> IntText(v.i)
    [] v.t = "bool" -> IF v.i = 1 THEN <<"T", "r", "u", "e">> ELSE <<"F", "a", "l", "s", "e">>
    [] v.t = "NoneType" -> <<"N", "o", "n", "e">>
    [] OTHER -> v.s

\* bool(x) of a loaded value
truthy(v) ==
  CASE v.t = "str" -> v.s # <<>>
    [] v.t \in {"int", "float", "bool"} -> v.i # 0
    [] v.t = "NoneType" -> FALSE
    [] OTHER -> TRUE

Missing == [t |-> "missing", c |-> "", i |-> 0, f |-> 0, s |-> <<>>]

\* enum_class.mro()[1](v) followed by enum_class(...)
enum_loader(enum_class, txt) ==
  LET base == IF enum_class.base = "str" THEN StrV(txt)
              ELSE IF enum_class.base = "int" THEN int_(txt)
              ELSE Raise("TypeError")
  IN IF IsRaise(base) THEN base
     ELSE IF base \in enum_class.members THEN EnumV(enum_class.name, base)
     ELSE Raise("ValueError")

\* the loader lambdas of the typed loaders
apply_loader(loader, txt) ==
  CASE loader.kind = "int" -> int_(txt)
    [] loader.kind = "float" -> float_(txt)
    [] loader.kind = "json" -> json_loads(txt)
    [] loader.kind = "string" -> StrV(str(StrV(txt)))
    [] loader.kind = "enum" -> enum_loader(loader.enum_class, txt)
    [] loader.kind = "boolean" ->
         BoolV(lower(txt) \in {<<"t", "r", "u", "e">>, <<"1">>, <<"y", "e", "s">>})

NoEnum == [name |-> "", base |-> "", members |-> {}]

Loader(kind) == [kind |-> kind, enum_class |-> NoEnum]

\* the redacted form computed for logging
log_value_of(value, contains_secret) ==
  IF contains_secret
  THEN IF truthy(value) /\ isinstance_str(value) /\ Len(value.s) > 10
       THEN StrV(SubSeq(value.s, 1, 4) \o <<"*", "*">>
                 \o SubSeq(value.s, Len(value.s) - 3, Len(value.s)))
       ELSE StrV(<<"*", "*">>)
  ELSE value

general_loader_lenient(name, loader, default, description, contains_secret) ==
  LET value_str == os_getenv(name)
      value == IF value_str # NoneV THEN apply_loader(loader, value_str.s) ELSE default
  IN IF IsRaise(value) THEN default ELSE value

general_loader(name, loader, default, description, contains_secret) ==
  LET value_str == os_getenv(name)
      value == IF value_str # NoneV THEN apply_loader(loader, value_str.s) ELSE default
      log_value == log_value_of(value, contains_secret)
  IN value

Env_int(name, default, description, contains_secret) ==
  general_loader(name, Loader("int"),
                 IF default = Missing THEN IntV(0) ELSE default,
                 description, contains_secret)

Env_float(name, default, description, contains_secret) ==
  general_loader(name, Loader("float"),
                 IF default = Missing THEN FloatV(0, 0) ELSE default,
                 description, contains_secret)

Env_json(name, default, description, contains_secret) ==
  general_loader(name, Loader("json"),
                 IF default = Missing THEN NoneV ELSE default,
                 description, contains_secret)

Env_string(name, default, description, contains_secret) ==
  general_loader(name, Loader("string"),
                 IF default = Missing THEN StrV(<<>>) ELSE default,
                 description, contains_secret)

Env_enum(name, enum_class, default, description, contains_secret) ==
  general_loader(name, [kind |-> "enum", enum_class |-> enum_class],
                 default, description, contains_secret)

Env_boolean_strict(name, default, description, contains_secret) ==
  LET value_str == os_getenv(name)
  IN IF value_str # NoneV
     THEN BoolV(value_str.s \in {<<"t", "r", "u", "e">>, <<"1">>, <<"y", "e", "s">>})
     ELSE IF default = Missing THEN BoolV(FALSE) ELSE default

Env_boolean(name, default, description, contains_secret) ==
  general_loader(name, Loader("boolean"),
                 IF default = Missing THEN BoolV(FALSE) ELSE default,
                 description, contains_secret)

----------------------------------------------------------------------------
(* Calls of the typed loaders *)

NoCall == [op |-> "none"]

EmptyMapping == [k \in {} |-> NoneV]

Entries(names, raws) == [name : names, value : raws]

Environments(names, raws) ==
  UNION {{e \in [1..n -> Entries(names, raws)] :
            \A a, b \in 1..n : a # b => e[a].name # e[b].name} : n \in 0..MaxEnv}

LoaderNames == {<<"X">>}

OtherNames == {<<"Y">>}

LoaderRaws ==
  {<<"4", "2">>,
   <<"a", "b", "c">>,
   <<>>,
   <<"t", "r", "u", "e">>,
   <<"T", "R", "U", "E">>,
   <<"Y", "e", "s">>,
   <<"1">>,
   <<"0">>,
   <<"f", "a", "l", "s", "e">>,
   <<"1", ".", "5">>,
   <<"\"", "7", "\"">>,
   <<"+", "5">>,
   <<"0", "0", "0", "0", "0", "0", "0", "0", "0", "4", "2">>}

Defaults == {Missing, IntV(5), BoolV(TRUE)}

Descriptions == {NoneV, StrV(<<"d">>)}

Mode == [name |-> "Mode", base |-> "str",
         members |-> {StrV(<<"a", "b", "c">>)}]

Level == [name |-> "Level", base |-> "int", members |-> {IntV(42)}]

Plain == [name |-> "Plain", base |-> "Enum", members |-> {StrV(<<"a", "b", "c">>)}]

EnumClasses == {Mode, Level, Plain}

EnumDefaults(enum_class) ==
  {EnumV(enum_class.name, m) : m \in enum_class.members} \cup {NoneV}

LoaderCall(op, cls, name, default, description, contains_secret, result) ==
  [op |-> op, cls |-> cls, name |-> name, default |-> default,
   description |-> description, contains_secret |-> contains_secret,
   result |-> result]

InitEnv ==
  /\ environ \in Environments(LoaderNames \cup OtherNames, LoaderRaws)
  /\ settings = EmptyMapping
  /\ last = NoCall
  /\ prev = NoCall

CallInt ==
  \E name \in LoaderNames, default \in Defaults,
     description \in Descriptions, contains_secret \in BOOLEAN :
    /\ last' = LoaderCall("int", NoEnum, name, default, description, contains_secret,
                          Env_int(name, default, description, contains_secret))
    /\ UNCHANGED <<environ, settings, prev>>

CallFloat ==
  \E name \in LoaderNames, default \in Defaults,
     description \in Descriptions, contains_secret \in BOOLEAN :
    /\ last' = LoaderCall("float", NoEnum, name, default, description, contains_secret,
                          Env_float(name, default, description, contains_secret))
    /\ UNCHANGED <<environ, settings, prev>>

CallJson ==
  \E name \in LoaderNames, default \in Defaults,
     description \in Descriptions, contains_secret \in BOOLEAN :
    /\ last' = LoaderCall("json", NoEnum, name, default, description, contains_secret,
                          Env_json(name, default, description, contains_secret))
    /\ UNCHANGED <<environ, settings, prev>>

CallString ==
  \E name \in LoaderNames, default \in Defaults,
     description \in Descriptions, contains_secret \in BOOLEAN :
    /\ last' = LoaderCall("string", NoEnum, name, default, description, contains_secret,
                          Env_string(name, default, description, contains_secret))
    /\ UNCHANGED <<environ, settings, prev>>

CallEnum ==
  \E name \in LoaderNames, enum_class \in EnumClasses,
     description \in Descriptions, contains_secret \in BOOLEAN :
    \E default \in EnumDefaults(enum_class) :
      /\ last' = LoaderCall("enum", enum_class, name, default, description, contains_secret,
                            Env_enum(name, enum_class, default, description, contains_secret))
      /\ UNCHANGED <<environ, settings, prev>>

CallBoolean ==
  \E name \in LoaderNames, default \in Defaults,
     description \in Descriptions, contains_secret \in BOOLEAN :
    /\ last' = LoaderCall("boolean", NoEnum, name, default, description, contains_secret,
                          Env_boolean(name, default, description, contains_secret))
    /\ UNCHANGED <<environ, settings, prev>>

NextEnv ==
  \/ CallInt
  \/ CallFloat
  \/ CallJson
  \/ CallString
  \/ CallEnum
  \/ CallBoolean

EnvSpec == InitEnv /\ [][NextEnv]_vars

----------------------------------------------------------------------------
(* Env.auto_load *)

sep == <<"_", "_">>

\* str(name).replace(".", sep)
settings_prefix_of(name) == replace(str(name), ".", sep)

Exception == Raise("Exception")

NoRaise == NoneV

should_reparse_also_none(target, key) ==
  /\ key \in DOMAIN target
  /\ ~isinstance_str(target[key])

should_reparse_present(target, key) == key \in DOMAIN target

\* the test that decides whether the raw text is reinterpreted
should_reparse(target, key) ==
  /\ key \in DOMAIN target
  /\ target[key] # NoneV
  /\ ~isinstance_str(target[key])

reparse_json_only(value) == json_loads(value)

\* json.loads(value), and ast.literal_eval(value) when that raises
reparse(value) ==
  IF ~IsRaise(json_loads(value)) THEN json_loads(value) ELSE literal_eval(value)

\* settings[key] = value
store(target, key, value) ==
  [k \in DOMAIN target \cup {key} |-> IF k = key THEN value ELSE target[k]]

Write(var, key, target, raw, stored) ==
  [var |-> var, key |-> key, present |-> key \in DOMAIN target,
   old |-> IF key \in DOMAIN target THEN target[key] ELSE NoneV,
   raw |-> raw, stored |-> stored]

\* the body of the loop over os.environ.items(), for entry n; acc carries the
\* target mapping, the exception that ended the loop, the assignments made
\* and the number of entries examined
RECURSIVE auto_load_loop(_, _, _)
auto_load_loop(settings_prefix, n, acc) ==
  IF n > Len(environ) THEN acc
  ELSE
    LET var == environ[n].name
        raw == environ[n].value
        seen == [acc EXCEPT !.scanned = n]
        key == SliceFrom(var, Len(settings_prefix) + Len(sep))
    IN IF ~startswith(var, settings_prefix)
       THEN auto_load_loop(settings_prefix, n + 1, seen)
       ELSE IF key = <<>> \/ contains(sep, key)
       THEN auto_load_loop(settings_prefix, n + 1, seen)
       ELSE IF should_reparse(acc.settings, key)
       THEN IF IsRaise(reparse(raw))
            THEN [seen EXCEPT !.raised = reparse(raw)]
            ELSE auto_load_loop(settings_prefix, n + 1,
                   [seen EXCEPT !.settings = store(acc.settings, key, reparse(raw)),
                                !.writes = Append(acc.writes,
                                   Write(var, key, acc.settings, raw, reparse(raw)))])
       ELSE auto_load_loop(settings_prefix, n + 1,
              [seen EXCEPT !.settings = store(acc.settings, key, StrV(raw)),
                           !.writes = Append(acc.writes,
                              Write(var, key, acc.settings, raw, StrV(raw)))])

Start(target) ==
  [settings |-> target, raised |-> NoRaise, writes |-> <<>>, scanned |-> 0]

\* name = f_locals["__name__"] when name is None
effective_name(name, caller_name) == IF name = NoneV THEN StrV(caller_name) ELSE name

auto_load_late_check(name, caller_name, target) ==
  LET done == auto_load_loop(settings_prefix_of(effective_name(name, caller_name)),
                             1, Start(target))
  IN IF ~contains(<<".">>, str(effective_name(name, caller_name)))
     THEN [done EXCEPT !.raised = Exception]
     ELSE done

auto_load(name, caller_name, target) ==
  IF ~contains(<<".">>, str(effective_name(name, caller_name)))
  THEN [Start(target) EXCEPT !.raised = Exception]
  ELSE auto_load_loop(settings_prefix_of(effective_name(name, caller_name)),
                      1, Start(target))

----------------------------------------------------------------------------
(* Calls of Env.auto_load on a target mapping *)

AutoVarNames ==
  {<<"a", "_", "_", "b", "_", "_", "x">>,
   <<"a", "_", "_", "b", "_", "_", "y", "_", "_", "z">>,
   <<"a", "_", "_", "b", "_", "_">>,
   <<"a", "_", "_", "b", "q", "_", "x">>,
   <<"c", "_", "_", "x">>}

AutoRaws ==
  {<<"5">>,
   <<"\"", "7", "\"">>,
   <<"n", "u", "l", "l">>,
   <<"+", "5">>,
   <<"a", "b", "c">>}

AutoNames == {StrV(<<"a", ".", "b">>), StrV(<<"s", "e", "t", "t", "i", "n", "g", "s">>), NoneV}

CallerNames == {<<"a", ".", "b">>}

KeyX == <<"x">>

KeyW == <<"w">>

\* the target mapping before the first call: w is a setting no variable names,
\* x is unset or holds a default of one of the types the loop distinguishes
InitialSettings ==
  {[k \in {KeyW} |-> IntV(1)]} \cup
  {[k \in {KeyX, KeyW} |-> IF k = KeyX THEN v ELSE IntV(1)] :
     v \in {IntV(1), StrV(<<"s">>), NoneV}}

InitAuto ==
  /\ environ \in Environments(AutoVarNames, AutoRaws)
  /\ settings \in InitialSettings
  /\ last = NoCall
  /\ prev = NoCall

AutoLoad ==
  \E name \in AutoNames, caller_name \in CallerNames :
    \E done \in {auto_load(name, caller_name, settings)} :
      /\ settings' = done.settings
      /\ last' = [op |-> "auto_load", name |-> name, caller_name |-> caller_name,
                  pre |-> settings, raised |-> done.raised,
                  writes |-> done.writes, scanned |-> done.scanned]
      /\ prev' = last
      /\ UNCHANGED environ

NextAuto == AutoLoad

AutoSpec == InitAuto /\ [][NextAuto]_vars

----------------------------------------------------------------------------
(* schemas/response_info: the catalog of RespInfo records, with_message    *)
(* and NMCException                                                        *)

RespInfo(code, reason, message, http_status) ==
  [t |-> "RespInfo", code |-> code, reason |-> reason,
   message |-> message, http_status |-> http_status]

RSINFO_OK == RespInfo(200, <<"O", "K">>, <<"s", "u", "c", "c", "e", "s", "s">>, 200)

RSINFO_REQUEST_VALIDATION_ERROR ==
  RespInfo(422, <<"R", "E", "Q", "U", "E", "S", "T", "_", "V", "A", "L", "I", "D", "A", "T", "I", "O", "N", "_", "E", "R", "R", "O", "R">>,
           <<"i", "n", "v", "a", "l", "i", "d", " ", "r", "e", "q", "u", "e", "s", "t">>, 422)

RFInfo_FAILED == RespInfo(500, <<"F", "A", "I", "L", "E", "D">>, <<"f", "a", "i", "l", "e", "d">>, 400)

\* a copy of info with the message, and the reason when one is given, replaced
with_message(info, message, reason) ==
  [info EXCEPT !.message = message,
               !.reason = IF reason = Missing THEN info.reason ELSE reason]

NMCException(error) ==
  [t |-> "exc", cls |-> <<"N", "M", "C", "E", "x", "c", "e", "p", "t", "i", "o", "n">>, s |-> error.message, code |-> <<>>, error |-> error]

----------------------------------------------------------------------------
(* main.py: response_for_error and the exception handlers *)

\* an exception object: its class name, its text and, for a SQLAlchemy error,
\* its code attribute
ExcV(cls, txt, code) == [t |-> "exc", cls |-> cls, s |-> txt, code |-> code]

RequestV(path) == [t |-> "Request", s |-> path]

isinstance_RespInfo(error) == error.t = "RespInfo"

\* JSONResponse(content) without status_code
DEFAULT_STATUS == 200

JSONResponse(code, reason, message, status_code) ==
  [body |-> [code |-> code, reason |-> reason, message |-> message],
   status_code |-> status_code]

response_for_error_keep_code(error, exception, request) ==
  IF isinstance_RespInfo(error)
  THEN LET msg == exception.cls \o <<":", " ">> \o str(exception)
           err == IF exception # NoneV
                  THEN with_message(error, msg, Missing)
                  ELSE error
       IN JSONResponse(err.code, err.reason, err.message, err.http_status)
  ELSE JSONResponse(0, str(error), str(error), DEFAULT_STATUS)

response_for_error_always_recast(error, exception, request) ==
  IF isinstance_RespInfo(error)
  THEN LET err == IF exception # NoneV
                  THEN with_message(RSINFO_REQUEST_VALIDATION_ERROR,
                                    exception.cls \o <<":", " ">> \o str(exception), Missing)
                  ELSE with_message(RSINFO_REQUEST_VALIDATION_ERROR, error.message, Missing)
       IN JSONResponse(err.code, err.reason, err.message, err.http_status)
  ELSE JSONResponse(0, str(error), str(error), DEFAULT_STATUS)

response_for_error_failed_status(error, exception, request) ==
  IF isinstance_RespInfo(error)
  THEN LET err == IF exception # NoneV
                  THEN with_message(RSINFO_REQUEST_VALIDATION_ERROR,
                                    exception.cls \o <<":", " ">> \o str(exception), Missing)
                  ELSE error
       IN JSONResponse(err.code, err.reason, err.message, err.http_status)
  ELSE JSONResponse(0, str(error), str(error), RFInfo_FAILED.http_status)

response_for_error(error, exception, request) ==
  IF isinstance_RespInfo(error)
  THEN LET err == IF exception # NoneV
                  THEN with_message(RSINFO_REQUEST_VALIDATION_ERROR,
                                    exception.cls \o <<":", " ">> \o str(exception), Missing)
                  ELSE error
       IN JSONResponse(err.code, err.reason, err.message, err.http_status)
  ELSE JSONResponse(0, str(error), str(error), DEFAULT_STATUS)

Return(response) == [kind |-> "return", response |-> response]

Reraise(exc) == [kind |-> "raise", exc |-> exc]

validation_exception_handler(request, e) ==
  Return(response_for_error(RSINFO_REQUEST_VALIDATION_ERROR, NoneV, NoneV))

assert_exception_handler(request, exc) ==
  Return(response_for_error(with_message(RFInfo_FAILED, str(exc), Missing), NoneV, NoneV))

http_exception_handler(request, exc) ==
  Return(response_for_error(exc.error, NoneV, NoneV))

gkpj == <<"g", "k", "p", "j">>

DATA_EXISTS == <<"U+6570", "U+636E", "U+5DF2", "U+5B58", "U+5728">>

data_exist == <<"d", "a", "t", "a", " ", "e", "x", "i", "s", "t">>

integrity_exception_handler_swallow(request, exc) ==
  Return(response_for_error(with_message(RFInfo_FAILED, DATA_EXISTS, data_exist),
                            NoneV, NoneV))

integrity_exception_handler(request, exc) ==
  IF exc.code = gkpj
  THEN Return(response_for_error(with_message(RFInfo_FAILED, DATA_EXISTS, data_exist),
                                 NoneV, NoneV))
  ELSE Reraise(exc)

----------------------------------------------------------------------------
(* Calls of response_for_error and dispatch of the exception handlers *)

Exceptions ==
  {ExcV(<<"V", "a", "l", "i", "d", "a", "t", "i", "o", "n", "E", "r", "r", "o", "r">>, <<"b", "o", "o", "m">>, <<>>),
   ExcV(<<"K", "e", "y", "E", "r", "r", "o", "r">>, <<"k">>, <<>>),
   ExcV(<<"V", "a", "l", "u", "e", "E", "r", "r", "o", "r">>, <<>>, <<>>)}

Requests == {RequestV(<<"/">>), RequestV(<<"/", "x">>)}

KnownInfos ==
  {RSINFO_OK, RSINFO_REQUEST_VALIDATION_ERROR, RFInfo_FAILED,
   with_message(RFInfo_FAILED, <<"b", "o", "o", "m">>, Missing),
   with_message(RSINFO_OK, <<>>, data_exist)}

OtherErrors == {StrV(<<"o", "o", "p", "s">>), IntV(5), NoneV} \cup Exceptions

IntegrityErrors ==
  {ExcV(<<"I", "n", "t", "e", "g", "r", "i", "t", "y", "E", "r", "r", "o", "r">>, <<"d", "u", "p">>, gkpj),
   ExcV(<<"I", "n", "t", "e", "g", "r", "i", "t", "y", "E", "r", "r", "o", "r">>, <<"b", "o", "o", "m">>, gkpj),
   ExcV(<<"I", "n", "t", "e", "g", "r", "i", "t", "y", "E", "r", "r", "o", "r">>, <<"d", "u", "p">>, <<"e", "3", "q", "8">>),
   ExcV(<<"I", "n", "t", "e", "g", "r", "i", "t", "y", "E", "r", "r", "o", "r">>, <<"d", "u", "p">>, <<>>)}

InitResp ==
  /\ environ = <<>>
  /\ settings = EmptyMapping
  /\ last = NoCall
  /\ prev = NoCall

ResponseForError ==
  \E error \in KnownInfos \cup OtherErrors,
     exception \in Exceptions \cup {NoneV},
     request \in Requests \cup {NoneV} :
    /\ last' = [op |-> "response_for_error", error |-> error,
                exception |-> exception, request |-> request,
                result |-> Return(response_for_error(error, exception, request))]
    /\ UNCHANGED <<environ, settings, prev>>

ValidationError ==
  \E request \in Requests, e \in Exceptions :
    /\ last' = [op |-> "validation_exception_handler", request |-> request, exc |-> e,
                result |-> validation_exception_handler(request, e)]
    /\ UNCHANGED <<environ, settings, prev>>

AssertionError ==
  \E request \in Requests, txt \in {<<>>, <<"b", "o", "o", "m">>} :
    /\ last' = [op |-> "assert_exception_handler", request |-> request,
                exc |-> ExcV(<<"A", "s", "s", "e", "r", "t", "i", "o", "n", "E", "r", "r", "o", "r">>, txt, <<>>),
                result |-> assert_exception_handler(request,
                                                    ExcV(<<"A", "s", "s", "e", "r", "t", "i", "o", "n", "E", "r", "r", "o", "r">>, txt, <<>>))]
    /\ UNCHANGED <<environ, settings, prev>>

DomainError ==
  \E request \in Requests, error \in KnownInfos :
    /\ last' = [op |-> "http_exception_handler", request |-> request,
                exc |-> NMCException(error),
                result |-> http_exception_handler(request, NMCException(error))]
    /\ UNCHANGED <<environ, settings, prev>>

IntegrityError ==
  \E request \in Requests, exc \in IntegrityErrors :
    /\ last' = [op |-> "integrity_exception_handler", request |-> request, exc |-> exc,
                result |-> integrity_exception_handler(request, exc)]
    /\ UNCHANGED <<environ, settings, prev>>

NextResp ==
  \/ ResponseForError
  \/ ValidationError
  \/ AssertionError
  \/ DomainError
  \/ IntegrityError

RespSpec == InitResp /\ [][NextResp]_vars

----------------------------------------------------------------------------
(* Properties of the typed loaders (EnvSpec) *)

LoaderOps == {"int", "float", "json", "string", "enum", "boolean"}

SignatureDefault(op) ==
  CASE op = "int" -> IntV(0)
    [] op = "float" -> FloatV(0, 0)
    [] op = "json" -> NoneV
    [] op = "string" -> StrV(<<>>)
    [] op = "boolean" -> BoolV(FALSE)
    [] OTHER -> Missing

\* C1: a typed loader returns the default exactly as given when the variable
\* is unset, and the type parser's result on the raw text (its parse error
\* when it fails, never the default) when the variable is set; the result is
\* a function of the variable's value, the default and the type alone, so
\* the description and the secret flag do not change it.
C1_LoaderContract ==
  last.op \in LoaderOps =>
    /\ ~IsSet(last.name) =>
         last.result = IF last.default = Missing
                       THEN SignatureDefault(last.op) ELSE last.default
    /\ IsSet(last.name) =>
         /\ last.result = apply_loader([kind |-> last.op, enum_class |-> last.cls],
                                       RawOf(last.name))
         /\ (last.op = "int" /\ RawOf(last.name) = <<"4", "2">>) => last.result = IntV(42)
         /\ (last.op \in {"int", "float"} /\ RawOf(last.name) = <<"a", "b", "c">>) =>
              last.result = Raise("ValueError")
         /\ (last.op = "json" /\ RawOf(last.name) = <<"a", "b", "c">>) =>
              last.result = Raise("JSONDecodeError")

C1_Witness ==
  /\ last.op = "int"
  /\ IsSet(last.name)
  /\ RawOf(last.name) = <<"a", "b", "c">>
  /\ last.default = IntV(5)
  /\ last.contains_secret
  /\ last.result = Raise("ValueError")

TrueWords == {<<"t", "r", "u", "e">>, <<"1">>, <<"y", "e", "s">>}

SameLetter(a, b) ==
  \/ a = b
  \/ \E k \in 1..Len(UpperLetters) : {a, b} = {UpperLetters[k], LowerLetters[k]}

SameIgnoringCase(a, b) ==
  /\ Len(a) = Len(b)
  /\ \A k \in 1..Len(a) : SameLetter(a[k], b[k])

\* C2: Env.boolean on a set variable returns true exactly when the raw text
\* equals "true", "1" or "yes" up to letter case, and false for every other
\* text whatever the default; unset and without a default it returns false.
C2_BooleanMembership ==
  last.op = "boolean" =>
    /\ IsSet(last.name) =>
         /\ last.result =
              BoolV(\E w \in TrueWords : SameIgnoringCase(RawOf(last.name), w))
         /\ RawOf(last.name) \in {<<"f", "a", "l", "s", "e">>, <<"0">>, <<>>} => last.result = BoolV(FALSE)
    /\ (~IsSet(last.name) /\ last.default = Missing) => last.result = BoolV(FALSE)

C2_Witness ==
  /\ last.op = "boolean"
  /\ IsSet(last.name)
  /\ RawOf(last.name) = <<"T", "R", "U", "E">>
  /\ last.default = Missing
  /\ last.result = BoolV(TRUE)

----------------------------------------------------------------------------
(* Properties of Env.auto_load (AutoSpec) *)

EffectiveName(call) == effective_name(call.name, call.caller_name)

Qualified(call) == contains(<<".">>, str(EffectiveName(call)))

\* C3: auto_load changes or adds a key k of the target mapping only if a
\* variable named exactly prefix + "__" + k is set, with k non-empty and
\* free of "__"; every other entry is left as it was.
C3_OnlyPrefixedKeysWritten ==
  (last.op = "auto_load" /\ Qualified(last)) =>
    /\ DOMAIN last.pre \subseteq DOMAIN settings
    /\ \A k \in DOMAIN settings :
         (k \notin DOMAIN last.pre \/ settings[k] # last.pre[k]) =>
           /\ IsSet(settings_prefix_of(EffectiveName(last)) \o sep \o k)
           /\ k # <<>>
           /\ ~contains(sep, k)

JsonThenLiteral(raw) ==
  IF IsRaise(json_loads(raw)) THEN literal_eval(raw) ELSE json_loads(raw)

\* C4 as stated: every assignment to a key present with a non-string value
\* stores the raw text parsed as JSON, else as a literal; every assignment to
\* an absent or string-valued key stores the raw text.
C4_NonStringReparsed ==
  last.op = "auto_load" =>
    \A n \in 1..Len(last.writes) :
      last.writes[n].stored =
        IF last.writes[n].present /\ ~isinstance_str(last.writes[n].old)
        THEN JsonThenLiteral(last.writes[n].raw)
        ELSE StrV(last.writes[n].raw)

ValueBefore(call, n, k) ==
  IF \E m \in 1..(n - 1) : call.writes[m].key = k
  THEN [present |-> TRUE,
        old |-> call.writes[CHOOSE m \in 1..(n - 1) :
                              /\ call.writes[m].key = k
                              /\ \A j \in (m + 1)..(n - 1) : call.writes[j].key # k].stored]
  ELSE [present |-> k \in DOMAIN call.pre,
        old |-> IF k \in DOMAIN call.pre THEN call.pre[k] ELSE NoneV]

\* C4 amended: an assignment made while the key is present with a value that
\* is neither None nor a string stores the raw text parsed as JSON, else as a
\* literal; an assignment made while the key is absent or holds None or a
\* string stores the raw text; the value the key held is the one left by the
\* previous assignment to it, and the mapping ends with the last one stored.
C4_NonStringNonNoneReparsed ==
  last.op = "auto_load" =>
    \A n \in 1..Len(last.writes) :
      /\ last.writes[n].present = ValueBefore(last, n, last.writes[n].key).present
      /\ last.writes[n].old = ValueBefore(last, n, last.writes[n].key).old
      /\ last.writes[n].stored =
           IF /\ last.writes[n].present
              /\ last.writes[n].old # NoneV
              /\ ~isinstance_str(last.writes[n].old)
           THEN JsonThenLiteral(last.writes[n].raw)
           ELSE StrV(last.writes[n].raw)
      /\ (\A m \in (n + 1)..Len(last.writes) :
            last.writes[m].key # last.writes[n].key) =>
           settings[last.writes[n].key] = last.writes[n].stored

C4_Witness ==
  /\ last.op = "auto_load"
  /\ \E n \in 1..Len(last.writes) :
       /\ last.writes[n].present
       /\ last.writes[n].old = IntV(1)
       /\ last.writes[n].raw = <<"+", "5">>
       /\ last.writes[n].stored = IntV(5)
       /\ settings[KeyX] = IntV(5)

\* C5: auto_load with an explicit name without "." raises the configuration
\* error before any variable is examined and leaves the target mapping as it
\* was.
C5_UnqualifiedNameRejected ==
  (last.op = "auto_load" /\ last.name # NoneV /\ ~contains(<<".">>, last.name.s)) =>
    /\ last.raised = Exception
    /\ last.scanned = 0
    /\ last.writes = <<>>
    /\ settings = last.pre

C5_Witness ==
  /\ last.op = "auto_load"
  /\ last.name = StrV(<<"s", "e", "t", "t", "i", "n", "g", "s">>)
  /\ Len(environ) = MaxEnv
  /\ last.raised = Exception
  /\ settings = last.pre

Repeated ==
  /\ last.op = "auto_load"
  /\ prev.op = "auto_load"
  /\ EffectiveName(last) = EffectiveName(prev)
  /\ prev.raised = NoRaise

\* C10 as stated: a second auto_load with the same name after a successful
\* first one leaves the target mapping as the first call left it.
C10_Idempotent ==
  Repeated => (last.raised = NoRaise /\ settings = last.pre)

Reparsable(v) == v # NoneV /\ ~isinstance_str(v)

\* C10 amended: a second auto_load with the same name after a successful
\* first one leaves the target mapping as the first call left it, provided
\* every entry that held a value other than None or a string before the
\* first call still holds such a value after it.
C10_IdempotentWhenTypesKept ==
  (/\ Repeated
   /\ \A k \in DOMAIN prev.pre : Reparsable(prev.pre[k]) => Reparsable(last.pre[k])) =>
    (last.raised = NoRaise /\ settings = last.pre)

C10_Witness ==
  /\ Repeated
  /\ KeyX \in DOMAIN prev.pre
  /\ prev.pre[KeyX] = IntV(1)
  /\ last.pre[KeyX] = IntV(5)
  /\ last.writes # <<>>
  /\ settings = last.pre

----------------------------------------------------------------------------
(* Properties of the error-response normalizer (RespSpec) *)

Body(call) == call.result.response.body

Status(call) == call.result.response.status_code

\* C6: response_for_error on a RespInfo with an exception answers with the
\* code, reason and status of REQUEST_VALIDATION_ERROR and the message
\* "<exception class>: <exception text>", whichever RespInfo was passed.
C6_ExceptionRecastAsValidationError ==
  (/\ last.op = "response_for_error"
   /\ isinstance_RespInfo(last.error)
   /\ last.exception # NoneV) =>
    /\ last.result.kind = "return"
    /\ Body(last).code = RSINFO_REQUEST_VALIDATION_ERROR.code
    /\ Body(last).reason = RSINFO_REQUEST_VALIDATION_ERROR.reason
    /\ Body(last).message = last.exception.cls \o <<":", " ">> \o last.exception.s
    /\ Status(last) = RSINFO_REQUEST_VALIDATION_ERROR.http_status
    /\ (last.exception.cls = <<"V", "a", "l", "i", "d", "a", "t", "i", "o", "n", "E", "r", "r", "o", "r">> /\ last.exception.s = <<"b", "o", "o", "m">>) =>
         Body(last).message = <<"V", "a", "l", "i", "d", "a", "t", "i", "o", "n", "E", "r", "r", "o", "r", ":", " ", "b", "o", "o", "m">>

C6_Witness ==
  /\ last.op = "response_for_error"
  /\ last.error = RFInfo_FAILED
  /\ last.exception # NoneV
  /\ Body(last).message = <<"V", "a", "l", "i", "d", "a", "t", "i", "o", "n", "E", "r", "r", "o", "r", ":", " ", "b", "o", "o", "m">>
  /\ Body(last).code = RSINFO_REQUEST_VALIDATION_ERROR.code

BodyOf(info) == [code |-> info.code, reason |-> info.reason, message |-> info.message]

\* C7: response_for_error on a RespInfo without an exception answers with
\* exactly that RespInfo's code, reason, message and status, with or without
\* a request; the domain-exception handler answers with the exception's own
\* RespInfo and the request-validation handler with REQUEST_VALIDATION_ERROR.
C7_ErrorInfoPassedThrough ==
  /\ (/\ last.op = "response_for_error"
      /\ isinstance_RespInfo(last.error)
      /\ last.exception = NoneV) =>
       /\ last.result.kind = "return"
       /\ Body(last) = BodyOf(last.error)
       /\ Status(last) = last.error.http_status
  /\ last.op = "http_exception_handler" =>
       /\ last.result.kind = "return"
       /\ Body(last) = BodyOf(last.exc.error)
       /\ Status(last) = last.exc.error.http_status
  /\ last.op = "validation_exception_handler" =>
       /\ last.result.kind = "return"
       /\ Body(last) = BodyOf(RSINFO_REQUEST_VALIDATION_ERROR)
       /\ Status(last) = RSINFO_REQUEST_VALIDATION_ERROR.http_status

C7_Witness ==
  /\ last.op = "http_exception_handler"
  /\ last.exc.error = with_message(RFInfo_FAILED, <<"b", "o", "o", "m">>, Missing)
  /\ Body(last).message = <<"b", "o", "o", "m">>
  /\ Body(last).code = RFInfo_FAILED.code
  /\ Status(last) = RFInfo_FAILED.http_status

\* C8: response_for_error on a value that is not a RespInfo answers with
\* code 0, reason and message str(error) and status 200, with or without an
\* exception.
C8_FallbackBody ==
  (last.op = "response_for_error" /\ ~isinstance_RespInfo(last.error)) =>
    /\ last.result.kind = "return"
    /\ Body(last) = [code |-> 0, reason |-> str(last.error), message |-> str(last.error)]
    /\ Status(last) = 200
    /\ last.error = StrV(<<"o", "o", "p", "s">>) => Body(last).reason = <<"o", "o", "p", "s">>
    /\ last.error = IntV(5) => Body(last).message = <<"5">>

C8_Witness ==
  /\ last.op = "response_for_error"
  /\ last.error = StrV(<<"o", "o", "p", "s">>)
  /\ last.exception # NoneV
  /\ Body(last) = [code |-> 0, reason |-> <<"o", "o", "p", "s">>, message |-> <<"o", "o", "p", "s">>]
  /\ Status(last) = 200

\* C9: the integrity-violation handler answers an exception whose code is
\* "gkpj" with FAILED's code and status, reason "data exist" and the fixed
\* message; for any other code it returns nothing and re-raises that
\* exception.
C9_IntegrityHandler ==
  last.op = "integrity_exception_handler" =>
    IF last.exc.code = gkpj
    THEN /\ last.result.kind = "return"
         /\ Body(last).code = RFInfo_FAILED.code
         /\ Body(last).reason = <<"d", "a", "t", "a", " ", "e", "x", "i", "s", "t">>
         /\ Body(last).message = DATA_EXISTS
         /\ Status(last) = RFInfo_FAILED.http_status
    ELSE /\ last.result.kind = "raise"
         /\ last.result.exc = last.exc

C9_Witness ==
  /\ last.op = "integrity_exception_handler"
  /\ last.exc.code = gkpj
  /\ last.result.kind = "return"
  /\ Body(last).reason = <<"d", "a", "t", "a", " ", "e", "x", "i", "s", "t">>

====
